---------------------------- MODULE Spec2Model ----------------------------
(***************************************************************************)
(* A model of load_tweets.py: the per-record loader insert_tweet, the url  *)
(* interning helper get_id_urls, the sanitizer remove_nulls and the main   *)
(* loop that feeds decoded records to insert_tweet.                        *)
(*                                                                         *)
(* The relational store is modelled as seven tables of rows.  Every row    *)
(* carries the transaction that wrote it in its field tx: 0 for a          *)
(* committed row, the loader's number for a row its open transaction has   *)
(* written.  A statement of loader l sees the committed rows and its own   *)
(* (read committed); commit retags the loader's rows to 0, rollback drops  *)
(* them.  The loader only ever inserts, so this is the whole of the        *)
(* transaction semantics it relies on.                                     *)
(*                                                                         *)
(* Python values: None is <<>> and a present value v is <<v>> wherever a   *)
(* field or column may be null; a text is a sequence of one-character      *)
(* strings, the null character being "NUL"; a JSON object is a record and  *)
(* a missing key is a key outside its DOMAIN.                              *)
(*                                                                         *)
(* Columns the loader copies verbatim from the record without looking at   *)
(* them (counts, flags, lang, quoted_status_id, ...) are left out of the   *)
(* rows: they behave like created_at, which is kept.                       *)
(***************************************************************************)
EXTENDS Integers, Sequences, FiniteSets, TLC

\* Largest id the urls sequence may hand out before the model stops inserting.
MaxUrlId == 6
\* Longest text remove_nulls is applied to on its own.
MaxLen == 3
\* Records each of two concurrent loaders reads.
MaxCalls == 1

--------------------------------------------------------------------------
(* Python values *)

None == <<>>
Some(v) == <<v>>
IsNone(x) == Len(x) = 0
Val(x) == x[1]

HasKey(obj, k) == k \in DOMAIN obj

NUL == "NUL"
Chars == {"a", NUL}

RECURSIVE TextsUpTo(_)
TextsUpTo(n) ==
    IF n = 0 THEN {<<>>}
    ELSE LET shorter == TextsUpTo(n - 1)
         IN shorter \cup {Append(s, c) : s \in {t \in shorter : Len(t) = n - 1}, c \in Chars}

HasNul(s) == \E i \in 1..Len(s) : s[i] = NUL
\* a nullable text with a null character in it
OptHasNul(o) == ~IsNone(o) /\ HasNul(Val(o))

\* remove_nulls: None stays None, else s.replace('\x00','')
remove_nulls(s) ==
    IF IsNone(s) THEN None
    ELSE Some(SelectSeq(Val(s), LAMBDA c : c # NUL))

--------------------------------------------------------------------------
(* The decoded records fed to the loader (the lines of the input files) *)

TweetIds == {1, 2}
Other(i) == 3 - i
\* a user id that never is an author (3): only ever a reply target
Stranger == Other(0)

Clean == <<"a">>
Dirty == <<"a", NUL, "b">>
AustinTX == <<"a", ",", " ", "T", "X">>
LongRegion == <<"a", ",", "a", "a", "a">>
BadPlace == <<"a", NUL>>

Box == <<  << <<1, 2>>, <<1, 4>>, <<3, 4>>, <<3, 2>> >>  >>

NoEntities == [urls |-> <<>>, user_mentions |-> <<>>, hashtags |-> <<>>, symbols |-> <<>>]

Mention(u, txt) == [id |-> u, screen_name |-> Some(txt), name |-> Some(txt)]

Profile(u, url, txt, ge) ==
    [id |-> u, created_at |-> u, url |-> url, screen_name |-> Some(txt),
     name |-> Some(txt), location |-> Some(txt), description |-> None,
     geo_enabled |-> ge]

Point == Some([coordinates |-> <<10, 20>>])

Core(i, usr, geo, place, txt) ==
    [id |-> i, created_at |-> 10 + i, user |-> usr, geo |-> geo, place |-> place,
     text |-> Some(txt)]

\* geo point, no place, nothing attached
Plain(i) ==
    Core(i, Profile(i, None, Clean, TRUE), Point, None, Clean)
        @@ [entities |-> NoEntities]

\* every section of the loader has work: profile url, null characters in the
\* sanitized fields, bounding box, reply target, urls, mentions, tags, media
Full(i) ==
    Core(i, Profile(i, Some("u1"), Dirty, FALSE), None,
         Some([full_name |-> Some(AustinTX), country_code |-> "US",
               bounding_box |-> [coordinates |-> Box]]), Dirty)
        @@ [source |-> Some(Dirty),
            in_reply_to_user_id |-> Some(Stranger),
            entities |-> [urls |-> << [expanded_url |-> "u1"] >>,
                          user_mentions |-> << Mention(Other(i), Clean) >>,
                          hashtags |-> << [text |-> Dirty] >>,
                          symbols |-> << [text |-> Clean] >>],
            extended_entities |-> [media |-> << [media_url |-> "u2", type |-> "photo"] >>]]

\* neither geo nor place
NoGeoNoPlace(i) ==
    Core(i, Profile(i, Some("u2"), Clean, TRUE), None, None, Clean)
        @@ [entities |-> NoEntities]

\* a place without a bounding box
NoBox(i, ge) ==
    Core(i, Profile(i, None, Clean, ge), None,
         Some([full_name |-> Some(LongRegion), country_code |-> "US"]), Clean)
        @@ [entities |-> NoEntities]

\* a mentioned user whose names hold a null character
DirtyMention(i) ==
    Core(i, Profile(i, None, Clean, TRUE), Point, None, Clean)
        @@ [entities |-> [NoEntities EXCEPT !.user_mentions = << Mention(Other(i), Dirty) >>]]

\* a place whose full_name holds a null character
DirtyPlace(i) ==
    Core(i, Profile(i, None, Clean, TRUE), Point,
         Some([full_name |-> Some(BadPlace), country_code |-> "MX",
               bounding_box |-> [coordinates |-> Box]]), Clean)
        @@ [entities |-> NoEntities]

\* a malformed record: no entities key at all
Malformed(i) ==
    Core(i, Profile(i, Some("u1"), Clean, TRUE), Point, None, Clean)

\* an extended tweet: full_text and the extended entities take precedence
Extended(i) ==
    Core(i, Profile(i, None, Clean, TRUE), Point, None, Clean)
        @@ [entities |-> [NoEntities EXCEPT !.urls = << [expanded_url |-> "u1"] >>],
            extended_tweet |->
                [full_text |-> Some(Dirty),
                 entities |-> [NoEntities EXCEPT !.urls = << [expanded_url |-> "u2"] >>,
                                                 !.hashtags = << [text |-> Clean] >>],
                 extended_entities |-> [media |-> << [media_url |-> "u1", type |-> "video"] >>]]]

\* a reply to, and a mention of, the other author
Social(i) ==
    Core(i, Profile(i, None, Clean, TRUE), Point, None, Clean)
        @@ [in_reply_to_user_id |-> Some(Other(i)),
            entities |-> [NoEntities EXCEPT !.user_mentions = << Mention(Other(i), Clean) >>]]

Records ==
    {Plain(i) : i \in TweetIds} \cup {Full(i) : i \in TweetIds}
        \cup {Social(i) : i \in TweetIds} \cup {Malformed(i) : i \in TweetIds}
        \cup {Extended(1), NoGeoNoPlace(1), NoBox(1, TRUE), NoBox(1, FALSE),
              DirtyMention(1), DirtyPlace(1)}

--------------------------------------------------------------------------
(* The store *)

VARIABLES users, tweets, urls, tweet_urls, tweet_mentions, tweet_tags, tweet_media,
          urls_seq,   \* the last value the sequence behind urls.id_urls handed out
          ctx,        \* per loader: where it is in the program, and its local variables
          inputs,     \* the lines of the input files, in the order the main loop reads them
          hist        \* observations of the run the properties refer to

tables == <<users, tweets, urls, tweet_urls, tweet_mentions, tweet_tags, tweet_media>>
vars == <<users, tweets, urls, tweet_urls, tweet_mentions, tweet_tags, tweet_media,
          urls_seq, ctx, inputs, hist>>

DB == [users |-> users, tweets |-> tweets, urls |-> urls, tweet_urls |-> tweet_urls,
       tweet_mentions |-> tweet_mentions, tweet_tags |-> tweet_tags,
       tweet_media |-> tweet_media, urls_seq |-> urls_seq]

EmptyDB == [users |-> {}, tweets |-> {}, urls |-> {}, tweet_urls |-> {},
            tweet_mentions |-> {}, tweet_tags |-> {}, tweet_media |-> {}, urls_seq |-> 0]

TableNames == {"users", "tweets", "urls", "tweet_urls", "tweet_mentions", "tweet_tags",
               "tweet_media"}

\* the rows a statement of loader l sees: the committed ones and its own
Vis(T, l) == {r \in T : r.tx \in {0, l}}
\* rows other open transactions have written and not yet committed
Foreign(T, l) == {r \in T : r.tx \notin {0, l}}
Committed(T) == {r \in T : r.tx = 0}

\* a transaction that leaves its rows behind when it fails
RollbackKeepsRows(l, db) ==
    [t \in DOMAIN db |->
        IF t \in TableNames
        THEN {IF r.tx = l THEN [r EXCEPT !.tx = 0] ELSE r : r \in db[t]}
        ELSE db[t]]

\* with connection.begin(): leaving the block by an exception rolls back
Rollback(l, db) ==
    [t \in DOMAIN db |->
        IF t \in TableNames THEN {r \in db[t] : r.tx # l} ELSE db[t]]

\* with connection.begin(): leaving the block normally commits
Commit(l, db) ==
    [t \in DOMAIN db |->
        IF t \in TableNames
        THEN {IF r.tx = l THEN [r EXCEPT !.tx = 0] ELSE r : r \in db[t]}
        ELSE db[t]]

--------------------------------------------------------------------------
(* A loader's local state *)

\* pc values at which the loader is between two calls of insert_tweet
Outside == {"main", "halted", "finished"}

NoExc == [type |-> "none", line |-> 0]

Locals ==
    [user_id_urls |-> None, geo_bound |-> FALSE, geo_str |-> None, geo_coords |-> None,
     text |-> None, country_code |-> None, state_code |-> None, place_name |-> None,
     k |-> 1, url |-> "", ret |-> "", id_urls |-> 0, noop |-> FALSE]

\* no record read yet
NoTweet == [id |-> 0]

InitCtx == [pc |-> "main", i |-> 0, tweet |-> NoTweet, exc |-> NoExc, again |-> "no"] @@ Locals

\* the frame of a call is dropped when the call ends
Drop(c) ==
    [pc |-> c.pc, i |-> c.i, tweet |-> c.tweet, exc |-> c.exc, again |-> c.again] @@ Locals

Out(c, db) == [c |-> c, db |-> db]

Goto(c, p) == [c EXCEPT !.pc = p]

\* a main loop that catches what insert_tweet raises and goes on to the next line
RaiseAndContinue(l, c, db, type, line) ==
    Out(Drop([c EXCEPT !.pc = "main", !.exc = [type |-> type, line |-> line]]),
        Rollback(l, db))

\* an exception inside insert_tweet: the transaction block rolls back, nothing in
\* the main loop catches it, the run halts
Raise(l, c, db, type, line) ==
    Out(Drop([c EXCEPT !.pc = "halted", !.exc = [type |-> type, line |-> line]]),
        Rollback(l, db))

\* insert_tweet returns; the main loop goes on to the next line
Return(c) == Drop([c EXCEPT !.pc = "main"])

--------------------------------------------------------------------------
(* get_id_urls *)

UrlRows(T, u) == {r \in T : r.url = u}

\* the call get_id_urls(u, connection), to continue at ret with the id
CallGetIdUrls(c, u, ret) == [c EXCEPT !.pc = "giu_insert", !.url = u, !.ret = ret]

\* return id_urls: the caller's assignment of the result
GiuReturn(c, id) ==
    IF c.ret = "insert_user"
    THEN [c EXCEPT !.pc = c.ret, !.user_id_urls = Some(id)]
    ELSE [c EXCEPT !.pc = c.ret, !.id_urls = id]

\* an insert that does not look for the url first
GiuInsertAlways(l, c, db) ==
    LET id == db.urls_seq + 1
    IN Out(GiuReturn(c, id),
           [db EXCEPT !.urls_seq = id,
                      !.urls = @ \cup {[id_urls |-> id, url |-> c.url, tx |-> l]}])

\* insert into urls (url) values (:url) on conflict do nothing returning id_urls.
\* The default of id_urls draws the next value of the sequence before the row is
\* tried, so a conflicting insert uses a value up too.
GiuInsert(l, c, db) ==
    LET id == db.urls_seq + 1
    IN IF UrlRows(Vis(db.urls, l), c.url) # {}
       THEN Out(Goto(c, "giu_select"), [db EXCEPT !.urls_seq = id])
       ELSE Out(GiuReturn(c, id),
                [db EXCEPT !.urls_seq = id,
                           !.urls = @ \cup {[id_urls |-> id, url |-> c.url, tx |-> l]}])

\* select id_urls from urls where url=:url; res[0] of no row is a TypeError
GiuSelect(l, c, db) ==
    LET rows == UrlRows(Vis(db.urls, l), c.url)
    IN IF rows = {}
       THEN Raise(l, c, db, "TypeError", 72)
       ELSE Out(GiuReturn(c, (CHOOSE r \in rows : TRUE).id_urls), db)

--------------------------------------------------------------------------
(* insert_tweet *)

\* skip tweet if it's already inserted; else the transaction block is entered
SkipCheckNever(l, c, db) == Out(Goto(c, "user_url"), db)

SkipCheck(l, c, db) ==
    IF \E r \in Vis(db.tweets, l) : r.id_tweets = c.tweet.id
    THEN Out(Return(c), db)
    ELSE Out(Goto(c, "user_url"), db)

UserUrl(l, c, db) ==
    IF IsNone(c.tweet.user.url)
    THEN Out([c EXCEPT !.pc = "insert_user", !.user_id_urls = None], db)
    ELSE Out(CallGetIdUrls(c, Val(c.tweet.user.url), "insert_user"), db)

\* the store takes no text with a null character in it: the driver raises
Rejected(texts) == \E t \in texts : OptHasNul(t)

UserRow(l, c) ==
    LET u == c.tweet.user
    IN [id_users |-> u.id, created_at |-> Some(u.created_at),
        updated_at |-> Some(c.tweet.created_at),
        screen_name |-> remove_nulls(u.screen_name), name |-> remove_nulls(u.name),
        location |-> remove_nulls(u.location), id_urls |-> c.user_id_urls,
        description |-> remove_nulls(u.description), tx |-> l]

\* an upsert that overwrites the row it conflicts with
InsertUserOverwrites(l, c, db) ==
    LET row == UserRow(l, c)
    IN Out(Goto(c, "derive"),
           [db EXCEPT !.users = {r \in @ : r.id_users # row.id_users} \cup {row}])

\* INSERT INTO users (...) VALUES (...) ON CONFLICT (id_users) DO NOTHING
InsertUser(l, c, db) ==
    LET row == UserRow(l, c)
    IN IF Rejected({row.screen_name, row.name, row.location, row.description})
       THEN Raise(l, c, db, "ValueError", 124)
       ELSE IF \E r \in Vis(db.users, l) : r.id_users = row.id_users
       THEN Out(Goto(c, "derive"), db)
       ELSE Out(Goto(c, "derive"), [db EXCEPT !.users = @ \cup {row}])

\* str(x) + ' ' + str(y)
PointText(p) == <<ToString(p[1]), " ", ToString(p[2])>>

\* for j,point in enumerate(poly): geo_coords += str(point[0])+' '+str(point[1])+','
RECURSIVE PointsText(_, _)
PointsText(poly, j) ==
    IF j > Len(poly) THEN <<>>
    ELSE PointText(poly[j]) \o <<",">> \o PointsText(poly, j + 1)

\* '(' + the points + the first point again + ')'
RingText(poly) == <<"(">> \o PointsText(poly, 1) \o PointText(poly[1]) \o <<")">>

\* for i,poly in enumerate(coordinates): ',' between the rings
RECURSIVE RingsText(_, _)
RingsText(polys, i) ==
    IF i > Len(polys) THEN <<>>
    ELSE (IF i > 1 THEN <<",">> ELSE <<>>) \o RingText(polys[i]) \o RingsText(polys, i + 1)

BoxText(polys) == <<"(">> \o RingsText(polys, 1) \o <<")">>

\* country_code.lower(), and lower() of one character
LowerCode(cc) == CASE cc = "US" -> "us" [] cc = "MX" -> "mx" [] OTHER -> cc
LowerChar(ch) == CASE ch = "T" -> "t" [] ch = "X" -> "x" [] OTHER -> ch

\* s.split(',')[-1]
LastSegment(s) ==
    LET commas == {i \in 1..Len(s) : s[i] = ","}
    IN IF commas = {} THEN s
       ELSE SubSeq(s, (CHOOSE i \in commas : \A j \in commas : j <= i) + 1, Len(s))

\* s.strip()
Strip(s) ==
    LET solid == {i \in 1..Len(s) : s[i] # " "}
    IN IF solid = {} THEN <<>>
       ELSE SubSeq(s, CHOOSE i \in solid : \A j \in solid : i <= j,
                      CHOOSE i \in solid : \A j \in solid : j <= i)

Lower(s) == [i \in 1..Len(s) |-> LowerChar(s[i])]

\* the geometry fallback chain of lines 144-164
Geometry(t) ==
    IF ~IsNone(t.geo)
    THEN [exc |-> NoExc, bound |-> TRUE, geo_str |-> Some("POINT"),
          geo_coords |-> Some(PointText(Val(t.geo).coordinates))]
    ELSE IF IsNone(t.place)
    THEN \* None['bounding_box'] inside the handler of the first TypeError: only
         \* KeyError is caught there
         [exc |-> [type |-> "TypeError", line |-> 151], bound |-> FALSE,
          geo_str |-> None, geo_coords |-> None]
    ELSE IF HasKey(Val(t.place), "bounding_box")
    THEN [exc |-> NoExc, bound |-> TRUE, geo_str |-> Some("MULTIPOLYGON"),
          geo_coords |-> Some(BoxText(Val(t.place).bounding_box.coordinates))]
    ELSE IF t.user.geo_enabled
    THEN [exc |-> NoExc, bound |-> TRUE, geo_str |-> None, geo_coords |-> None]
    ELSE \* geo_coords is '(' and geo_str was never assigned
         [exc |-> NoExc, bound |-> FALSE, geo_str |-> None, geo_coords |-> Some(<<"(">>)]

\* lines 144-186: geometry, text, country code, state code, place name
Derive(l, c, db) ==
    LET t == c.tweet
        g == Geometry(t)
        text == IF HasKey(t, "extended_tweet") /\ HasKey(t.extended_tweet, "full_text")
                THEN t.extended_tweet.full_text ELSE t.text
        cc == IF IsNone(t.place) THEN None ELSE Some(LowerCode(Val(t.place).country_code))
        sc == IF cc = Some("us")
              THEN LET code == Lower(Strip(LastSegment(Val(Val(t.place).full_name))))
                   IN IF Len(code) > 2 THEN None ELSE Some(code)
              ELSE None
        pn == IF IsNone(t.place) THEN None ELSE Val(t.place).full_name
    IN IF g.exc # NoExc
       THEN Raise(l, c, db, g.exc.type, g.exc.line)
       ELSE Out([c EXCEPT !.pc = "reply_select", !.geo_bound = g.bound,
                          !.geo_str = g.geo_str, !.geo_coords = g.geo_coords,
                          !.text = text, !.country_code = cc, !.state_code = sc,
                          !.place_name = pn], db)

\* tweet.get('in_reply_to_user_id', None)
ReplyTo(t) == IF HasKey(t, "in_reply_to_user_id") THEN t.in_reply_to_user_id ELSE None

\* SELECT id_users FROM users WHERE id_users = :in_reply_to_user_id
ReplySelect(l, c, db) ==
    IF IsNone(ReplyTo(c.tweet))
    THEN Out(Goto(c, "insert_tweet"), db)
    ELSE IF \E r \in Vis(db.users, l) : r.id_users = Val(ReplyTo(c.tweet))
    THEN Out(Goto(c, "insert_tweet"), db)
    ELSE Out(Goto(c, "reply_insert"), db)

Unhydrated(u, l) ==
    [id_users |-> u, created_at |-> None, updated_at |-> None, screen_name |-> None,
     name |-> None, location |-> None, id_urls |-> None, description |-> None, tx |-> l]

\* the placeholder is never written
ReplyInsertSkipped(l, c, db) == Out(Goto(c, "insert_tweet"), db)

\* insert into users (id_users) values (:in_reply_to_user_id): no conflict clause
ReplyInsert(l, c, db) ==
    LET u == Val(ReplyTo(c.tweet))
    IN IF \E r \in Vis(db.users, l) : r.id_users = u
       THEN Raise(l, c, db, "UniqueViolation", 213)
       ELSE Out(Goto(c, "insert_tweet"), [db EXCEPT !.users = @ \cup {Unhydrated(u, l)}])

\* ST_GeomFromText(:geo_str || '(' || :geo_coords || ')'): null if a part is null
GeomFromText(geo_str, geo_coords) ==
    IF IsNone(geo_str) \/ IsNone(geo_coords) THEN None
    ELSE Some(<<Val(geo_str), "(">> \o Val(geo_coords) \o <<")">>)

\* tweet.get('source', None)
Source(t) == IF HasKey(t, "source") THEN t.source ELSE None

TweetRow(l, c) ==
    [id_tweets |-> c.tweet.id, id_users |-> c.tweet.user.id,
     created_at |-> c.tweet.created_at, in_reply_to_user_id |-> ReplyTo(c.tweet),
     geo |-> GeomFromText(c.geo_str, c.geo_coords), place_name |-> c.place_name,
     country_code |-> c.country_code, state_code |-> c.state_code,
     text |-> remove_nulls(c.text), source |-> remove_nulls(Source(c.tweet)), tx |-> l]

HasUser(db, l, u) == \E r \in Vis(db.users, l) : r.id_users = u
HasTweet(db, l, i) == \E r \in Vis(db.tweets, l) : r.id_tweets = i
HasUrl(db, l, id) == \E r \in Vis(db.urls, l) : r.id_urls = id

\* INSERT INTO tweets (...) VALUES (...) ON CONFLICT DO NOTHING.  The parameter
\* dictionary reads geo_str, which the geometry chain may have left unassigned.
\* noop records that the statement inserted no row (the code does not look).
InsertTweet(l, c, db) ==
    LET row == TweetRow(l, c)
    IN IF ~c.geo_bound
       THEN Raise(l, c, db, "UnboundLocalError", 232)
       ELSE IF Rejected({row.place_name, row.text, row.source})
       THEN Raise(l, c, db, "ValueError", 224)
       ELSE IF HasTweet(db, l, row.id_tweets)
       THEN Out([c EXCEPT !.pc = "urls", !.k = 1, !.noop = TRUE], db)
       ELSE IF ~HasUser(db, l, row.id_users)
               \/ (~IsNone(row.in_reply_to_user_id)
                   /\ ~HasUser(db, l, Val(row.in_reply_to_user_id)))
       THEN Raise(l, c, db, "ForeignKeyViolation", 224)
       ELSE Out([c EXCEPT !.pc = "urls", !.k = 1],
                [db EXCEPT !.tweets = @ \cup {row}])

\* try tweet['extended_tweet']['entities'][key] except KeyError: tweet['entities'][key]
Entities(t, key) ==
    IF HasKey(t, "extended_tweet") /\ HasKey(t.extended_tweet, "entities")
       /\ HasKey(t.extended_tweet.entities, key)
    THEN [ok |-> TRUE, v |-> t.extended_tweet.entities[key]]
    ELSE IF HasKey(t, "entities") /\ HasKey(t.entities, key)
    THEN [ok |-> TRUE, v |-> t.entities[key]]
    ELSE [ok |-> FALSE, v |-> <<>>]

\* for url in urls: id_urls = get_id_urls(url['expanded_url'], connection)
Urls(l, c, db) ==
    LET e == Entities(c.tweet, "urls")
    IN IF ~e.ok THEN Raise(l, c, db, "KeyError", 253)
       ELSE IF c.k > Len(e.v) THEN Out([c EXCEPT !.pc = "mentions", !.k = 1], db)
       ELSE Out(CallGetIdUrls(c, e.v[c.k].expanded_url, "insert_tweet_url"), db)

\* INSERT INTO tweet_urls (id_tweets, id_urls) VALUES (...) ON CONFLICT DO NOTHING
InsertTweetUrl(l, c, db) ==
    LET row == [id_tweets |-> c.tweet.id, id_urls |-> c.id_urls, tx |-> l]
        next == [c EXCEPT !.pc = "urls", !.k = c.k + 1]
    IN IF \E r \in Vis(db.tweet_urls, l) :
              r.id_tweets = row.id_tweets /\ r.id_urls = row.id_urls
       THEN Out(next, db)
       ELSE IF ~HasTweet(db, l, row.id_tweets) \/ ~HasUrl(db, l, row.id_urls)
       THEN Raise(l, c, db, "ForeignKeyViolation", 265)
       ELSE Out(next, [db EXCEPT !.tweet_urls = @ \cup {row}])

MentionRow(m, l) ==
    [id_users |-> m.id, created_at |-> None, updated_at |-> None,
     screen_name |-> m.screen_name, name |-> m.name, location |-> None,
     id_urls |-> None, description |-> None, tx |-> l]

\* for mention in mentions: INSERT INTO users (id_users, screen_name, name)
\* VALUES (...) ON CONFLICT DO NOTHING
Mentions(l, c, db) ==
    LET e == Entities(c.tweet, "user_mentions")
    IN IF ~e.ok THEN Raise(l, c, db, "KeyError", 276)
       ELSE IF c.k > Len(e.v) THEN Out([c EXCEPT !.pc = "tags", !.k = 1], db)
       ELSE LET row == MentionRow(e.v[c.k], l)
            IN IF Rejected({row.screen_name, row.name})
               THEN Raise(l, c, db, "ValueError", 293)
               ELSE IF HasUser(db, l, row.id_users)
               THEN Out(Goto(c, "insert_mention"), db)
               ELSE Out(Goto(c, "insert_mention"), [db EXCEPT !.users = @ \cup {row}])

\* INSERT INTO tweet_mentions (id_tweets,id_users) VALUES (...) ON CONFLICT DO NOTHING
InsertMention(l, c, db) ==
    LET m == Entities(c.tweet, "user_mentions").v[c.k]
        row == [id_tweets |-> c.tweet.id, id_users |-> m.id, tx |-> l]
        next == [c EXCEPT !.pc = "mentions", !.k = c.k + 1]
    IN IF \E r \in Vis(db.tweet_mentions, l) :
              r.id_tweets = row.id_tweets /\ r.id_users = row.id_users
       THEN Out(next, db)
       ELSE IF ~HasTweet(db, l, row.id_tweets) \/ ~HasUser(db, l, row.id_users)
       THEN Raise(l, c, db, "ForeignKeyViolation", 308)
       ELSE Out(next, [db EXCEPT !.tweet_mentions = @ \cup {row}])

\* [ '#'+hashtag['text'] ... ] + [ '$'+cashtag['text'] ... ]
Prefixed(sign, list) == [j \in 1..Len(list) |-> Some(<<sign>> \o Val(list[j].text))]

TagList(t) ==
    LET inExt == /\ HasKey(t, "extended_tweet") /\ HasKey(t.extended_tweet, "entities")
                 /\ HasKey(t.extended_tweet.entities, "hashtags")
                 /\ HasKey(t.extended_tweet.entities, "symbols")
        ent == IF inExt THEN t.extended_tweet.entities ELSE t.entities
    IN IF ~inExt /\ ~(HasKey(t, "entities") /\ HasKey(t.entities, "hashtags")
                      /\ HasKey(t.entities, "symbols"))
       THEN [ok |-> FALSE, v |-> <<>>]
       ELSE [ok |-> TRUE, v |-> Prefixed("#", ent.hashtags) \o Prefixed("$", ent.symbols)]

\* for tag in tags: INSERT INTO tweet_tags (id_tweets, tag) VALUES (...) ON CONFLICT
\* DO NOTHING
Tags(l, c, db) ==
    LET e == TagList(c.tweet)
    IN IF ~e.ok THEN Raise(l, c, db, "KeyError", 320)
       ELSE IF c.k > Len(e.v) THEN Out([c EXCEPT !.pc = "media", !.k = 1], db)
       ELSE LET row == [id_tweets |-> c.tweet.id, tag |-> remove_nulls(e.v[c.k]), tx |-> l]
                next == [c EXCEPT !.k = c.k + 1]
            IN IF Rejected({row.tag})
               THEN Raise(l, c, db, "ValueError", 334)
               ELSE IF \E r \in Vis(db.tweet_tags, l) :
                          r.id_tweets = row.id_tweets /\ r.tag = row.tag
               THEN Out(next, db)
               ELSE IF ~HasTweet(db, l, row.id_tweets)
               THEN Raise(l, c, db, "ForeignKeyViolation", 334)
               ELSE Out(next, [db EXCEPT !.tweet_tags = @ \cup {row}])

\* extended_tweet.extended_entities.media, else extended_entities.media, else []
MediaList(t) ==
    IF HasKey(t, "extended_tweet") /\ HasKey(t.extended_tweet, "extended_entities")
       /\ HasKey(t.extended_tweet.extended_entities, "media")
    THEN t.extended_tweet.extended_entities.media
    ELSE IF HasKey(t, "extended_entities") /\ HasKey(t.extended_entities, "media")
    THEN t.extended_entities.media
    ELSE <<>>

\* the transaction block ends: commit, and insert_tweet returns
EndOfBlock(l, c, db) == Out(Return(c), Commit(l, db))

\* for medium in media: id_urls = get_id_urls(medium['media_url'], connection)
Media(l, c, db) ==
    LET list == MediaList(c.tweet)
    IN IF c.k > Len(list) THEN EndOfBlock(l, c, db)
       ELSE Out(CallGetIdUrls(c, list[c.k].media_url, "insert_media"), db)

\* INSERT INTO tweet_media (id_tweets, id_urls, type) VALUES (...) ON CONFLICT DO NOTHING
InsertMedia(l, c, db) ==
    LET row == [id_tweets |-> c.tweet.id, id_urls |-> c.id_urls,
                type |-> MediaList(c.tweet)[c.k].type, tx |-> l]
        next == [c EXCEPT !.pc = "media", !.k = c.k + 1]
    IN IF \E r \in Vis(db.tweet_media, l) :
              r.id_tweets = row.id_tweets /\ r.id_urls = row.id_urls
       THEN Out(next, db)
       ELSE IF ~HasTweet(db, l, row.id_tweets) \/ ~HasUrl(db, l, row.id_urls)
       THEN Raise(l, c, db, "ForeignKeyViolation", 361)
       ELSE Out(next, [db EXCEPT !.tweet_media = @ \cup {row}])

--------------------------------------------------------------------------
(* Statements of two loaders against one store *)

Loaders == {1, 2}

\* the open transactions whose uncommitted row the statement at c.pc collides with:
\* an insert waits for them to end before it reports or ignores the conflict
Blockers(l, c, db) ==
    LET t == c.tweet
        txs(rows) == {r.tx : r \in rows}
    IN CASE c.pc = "giu_insert" -> txs(UrlRows(Foreign(db.urls, l), c.url))
         [] c.pc = "insert_user" ->
                txs({r \in Foreign(db.users, l) : r.id_users = t.user.id})
         [] c.pc = "reply_insert" ->
                txs({r \in Foreign(db.users, l) : r.id_users = Val(ReplyTo(t))})
         [] c.pc = "insert_tweet" ->
                txs({r \in Foreign(db.tweets, l) : r.id_tweets = t.id})
         [] c.pc = "mentions" ->
                LET e == Entities(t, "user_mentions")
                IN IF e.ok /\ c.k <= Len(e.v)
                   THEN txs({r \in Foreign(db.users, l) : r.id_users = e.v[c.k].id})
                   ELSE {}
         [] OTHER -> {}

\* the statement the loader is at
Stmt(l, c, db) ==
    CASE c.pc = "skip_check" -> SkipCheck(l, c, db)
      [] c.pc = "user_url" -> UserUrl(l, c, db)
      [] c.pc = "giu_insert" -> GiuInsert(l, c, db)
      [] c.pc = "giu_select" -> GiuSelect(l, c, db)
      [] c.pc = "insert_user" -> InsertUser(l, c, db)
      [] c.pc = "derive" -> Derive(l, c, db)
      [] c.pc = "reply_select" -> ReplySelect(l, c, db)
      [] c.pc = "reply_insert" -> ReplyInsert(l, c, db)
      [] c.pc = "insert_tweet" -> InsertTweet(l, c, db)
      [] c.pc = "urls" -> Urls(l, c, db)
      [] c.pc = "insert_tweet_url" -> InsertTweetUrl(l, c, db)
      [] c.pc = "mentions" -> Mentions(l, c, db)
      [] c.pc = "insert_mention" -> InsertMention(l, c, db)
      [] c.pc = "tags" -> Tags(l, c, db)
      [] c.pc = "media" -> Media(l, c, db)
      [] c.pc = "insert_media" -> InsertMedia(l, c, db)

InCall(c) == c.pc \notin Outside

CommittedTables(db) == [t \in TableNames |-> Committed(db[t])]

UrlStrings == {"u1", "u2"}

\* what the properties need to remember of a step from c to out.c: the id
\* get_id_urls returned for a url the first time (0: not called with it yet), and
\* whether it has since returned another one for it
Observe(l, c, out) ==
    IF c.pc \in {"giu_insert", "giu_select"} /\ out.c.pc = c.ret
    THEN LET id == IF c.ret = "insert_user" THEN Val(out.c.user_id_urls)
                   ELSE out.c.id_urls
         IN IF hist.first[c.url] = 0
            THEN [hist EXCEPT !.first[c.url] = id]
            ELSE [hist EXCEPT !.changed = @ \/ (hist.first[c.url] # id)]
    ELSE hist

SetDB(db) ==
    /\ users' = db.users
    /\ tweets' = db.tweets
    /\ urls' = db.urls
    /\ tweet_urls' = db.tweet_urls
    /\ tweet_mentions' = db.tweet_mentions
    /\ tweet_tags' = db.tweet_tags
    /\ tweet_media' = db.tweet_media
    /\ urls_seq' = db.urls_seq

\* loader l has executed a statement with outcome out
Exec(l, out) ==
    /\ out.db.urls_seq <= MaxUrlId
    /\ ctx' = [ctx EXCEPT ![l] = out.c]
    /\ SetDB(out.db)
    /\ hist' = Observe(l, ctx[l], out)
    /\ UNCHANGED inputs

\* loader l is at p and does not have to wait for another transaction
At(l, p) == ctx[l].pc = p /\ Blockers(l, ctx[l], DB) = {}

DoSkipCheck(l) == At(l, "skip_check") /\ Exec(l, SkipCheck(l, ctx[l], DB))

DoUserUrl(l) == At(l, "user_url") /\ Exec(l, UserUrl(l, ctx[l], DB))

DoGiuInsert(l) == At(l, "giu_insert") /\ Exec(l, GiuInsert(l, ctx[l], DB))

DoGiuSelect(l) == At(l, "giu_select") /\ Exec(l, GiuSelect(l, ctx[l], DB))

DoInsertUser(l) == At(l, "insert_user") /\ Exec(l, InsertUser(l, ctx[l], DB))

DoDerive(l) == At(l, "derive") /\ Exec(l, Derive(l, ctx[l], DB))

DoReplySelect(l) == At(l, "reply_select") /\ Exec(l, ReplySelect(l, ctx[l], DB))

DoReplyInsert(l) == At(l, "reply_insert") /\ Exec(l, ReplyInsert(l, ctx[l], DB))

DoInsertTweet(l) == At(l, "insert_tweet") /\ Exec(l, InsertTweet(l, ctx[l], DB))

DoUrls(l) == At(l, "urls") /\ Exec(l, Urls(l, ctx[l], DB))

DoInsertTweetUrl(l) == At(l, "insert_tweet_url") /\ Exec(l, InsertTweetUrl(l, ctx[l], DB))

DoMentions(l) == At(l, "mentions") /\ Exec(l, Mentions(l, ctx[l], DB))

DoInsertMention(l) == At(l, "insert_mention") /\ Exec(l, InsertMention(l, ctx[l], DB))

DoTags(l) == At(l, "tags") /\ Exec(l, Tags(l, ctx[l], DB))

DoMedia(l) == At(l, "media") /\ Exec(l, Media(l, ctx[l], DB))

DoInsertMedia(l) == At(l, "insert_media") /\ Exec(l, InsertMedia(l, ctx[l], DB))

\* a statement fails for a reason of the store's (a dropped connection, ...):
\* connection.execute raises
StoreFault(l) ==
    /\ InCall(ctx[l])
    /\ Exec(l, Raise(l, ctx[l], DB, "OperationalError", 0))

\* two transactions wait for each other: the store ends one of them
DeadlockDetected(l) ==
    /\ \E m \in Blockers(l, ctx[l], DB) : l \in Blockers(m, ctx[m], DB)
    /\ Exec(l, Raise(l, ctx[l], DB, "DeadlockDetected", 0))

--------------------------------------------------------------------------
(* The main loop *)

\* the members of a set of naturals, largest first: sorted(..., reverse=True)
RECURSIVE SortedReverse(_)
SortedReverse(S) ==
    IF S = {} THEN <<>>
    ELSE LET m == CHOOSE x \in S : \A y \in S : y <= x
         IN <<m>> \o SortedReverse(S \ {m})

RECURSIVE Concat(_, _)
Concat(f, names) ==
    IF names = <<>> THEN <<>>
    ELSE f[Head(names)] \o Concat(f, Tail(names))

\* the lines in the order the main loop reads them.  files maps a file name to its
\* archive, an archive maps an entry name to the lines of the entry.
Lines(files) ==
    Concat([n \in DOMAIN files |->
                Concat(files[n], SortedReverse(DOMAIN files[n]))],
           SortedReverse(DOMAIN files))

\* line n holds record r: insert_tweet(connection, r) is called.  again notes
\* whether the call before this one was given the same record, and how it ended.
Call(c, r, n) ==
    [c EXCEPT !.pc = "skip_check", !.tweet = r, !.i = n, !.exc = NoExc,
              !.again = IF c.tweet # r THEN "no"
                        ELSE IF c.exc = NoExc THEN "returned"
                        ELSE IF c.exc.type = "OperationalError" THEN "fault"
                        ELSE "raised"]

StartCall(l, c, r, n) ==
    /\ ctx' = [ctx EXCEPT ![l] = Call(c, r, n)]
    /\ UNCHANGED <<tables, urls_seq, inputs, hist>>

\* tweet = json.loads(line); insert_tweet(connection,tweet): any record as the next line
ReadAny(l) ==
    /\ ctx[l].pc = "main"
    /\ \E r \in Records : StartCall(l, ctx[l], r, 0)

\* the same, along the lines of the given input files
ReadLine(l) ==
    /\ ctx[l].pc = "main"
    /\ ctx[l].i < Len(Lines(inputs))
    /\ StartCall(l, ctx[l], Lines(inputs)[ctx[l].i + 1], ctx[l].i + 1)

\* the loops are exhausted: the run ends
EndOfInput(l) ==
    /\ ctx[l].pc = "main"
    /\ ctx[l].i = Len(Lines(inputs))
    /\ ctx' = [ctx EXCEPT ![l].pc = "finished"]
    /\ UNCHANGED <<tables, urls_seq, inputs, hist>>

\* the loader is started again after a run that an exception ended
Reinvoke(l) ==
    /\ ctx[l].pc = "halted"
    /\ ctx' = [ctx EXCEPT ![l] = [InitCtx EXCEPT !.tweet = ctx[l].tweet,
                                                  !.exc = ctx[l].exc]]
    /\ hist' = [hist EXCEPT !.rerun = TRUE]
    /\ UNCHANGED <<tables, urls_seq, inputs>>

--------------------------------------------------------------------------
(* Specifications *)

NoFiles == [n \in {} |-> <<>>]

InitWith(files) ==
    /\ users = {} /\ tweets = {} /\ urls = {} /\ tweet_urls = {}
    /\ tweet_mentions = {} /\ tweet_tags = {} /\ tweet_media = {}
    /\ urls_seq = 0
    /\ ctx = [l \in Loaders |-> InitCtx]
    /\ inputs = files
    /\ hist = [first |-> [u \in UrlStrings |-> 0], changed |-> FALSE, rerun |-> FALSE]

Statement(l) ==
    \/ DoSkipCheck(l) \/ DoUserUrl(l) \/ DoGiuInsert(l) \/ DoGiuSelect(l)
    \/ DoInsertUser(l) \/ DoDerive(l) \/ DoReplySelect(l) \/ DoReplyInsert(l)
    \/ DoInsertTweet(l) \/ DoUrls(l) \/ DoInsertTweetUrl(l) \/ DoMentions(l)
    \/ DoInsertMention(l) \/ DoTags(l) \/ DoMedia(l) \/ DoInsertMedia(l)

\* One loader, fed any records in any order, restarted after every failure.
Init == InitWith(NoFiles)

Next == ReadAny(1) \/ Statement(1) \/ StoreFault(1) \/ Reinvoke(1)

Spec == Init /\ [][Next]_vars

\* Two loaders on the same store, each reading MaxCalls records.
ConcRecords == {Plain(1), Plain(2), Social(1), Social(2), Extended(1), Full(1)}

ReadConc(l) ==
    /\ ctx[l].pc = "main"
    /\ ctx[l].i < MaxCalls
    /\ \E r \in ConcRecords : StartCall(l, ctx[l], r, ctx[l].i + 1)

NextConc == \E l \in Loaders : ReadConc(l) \/ Statement(l) \/ DeadlockDetected(l)

SpecConc == Init /\ [][NextConc]_vars

\* One loader run over given input files, re-invoked after every aborted run.
RunRecords == {Plain(2), Full(1), Full(2), Social(1), Social(2), Malformed(1)}

InputFiles ==
    {(1 :> (1 :> <<a>>)) : a \in RunRecords}
        \cup {(1 :> (1 :> <<a, b>>)) : a, b \in RunRecords}
        \cup {(1 :> (1 :> <<a>> @@ 2 :> <<b>>)) : a, b \in RunRecords}
        \cup {(1 :> (1 :> <<a>>) @@ 2 :> (1 :> <<b>>)) : a, b \in RunRecords}

InitRun == \E files \in InputFiles : InitWith(files)

NextRun ==
    \/ ReadLine(1) \/ EndOfInput(1) \/ Statement(1) \/ StoreFault(1) \/ Reinvoke(1)

SpecRun == InitRun /\ [][NextRun]_vars

\* the run of the main loop over the given lines with no failure of the store's
RECURSIVE RunToEnd(_, _, _)
RunToEnd(lines, c, db) ==
    IF c.pc \in {"halted", "finished"} THEN Out(c, db)
    ELSE IF c.pc = "main"
    THEN IF c.i < Len(lines)
         THEN RunToEnd(lines, Call(c, lines[c.i + 1], c.i + 1), db)
         ELSE Out(Goto(c, "finished"), db)
    ELSE LET out == Stmt(1, c, db) IN RunToEnd(lines, out.c, out.db)

Uninterrupted(lines) == RunToEnd(lines, InitCtx, EmptyDB)

--------------------------------------------------------------------------
(* Properties *)

Me == ctx[1]
NoUncommitted == \A t \in TableNames : \A r \in DB[t] : r.tx = 0

\* C1: when insert_tweet is called with the record of the call that returned just
\* before it, the skip check finds the record's id in tweets and the call returns
\* there: no table changes and the url sequence is not touched, so the store after
\* the second call is the store after the first.  When the call before it raised on
\* that record (and the loader was started again), the second call commits nothing
\* either: the seven tables stay as the first call left them.
C1_SecondCallIsNoOp ==
    [][/\ (Me.pc = "skip_check" /\ Me.again = "returned")
            => /\ Me'.pc = "main" \/ Me'.exc.type = "OperationalError"
               /\ UNCHANGED <<tables, urls_seq>>
       /\ (InCall(Me) /\ Me.again \in {"returned", "raised"})
            => CommittedTables(DB)' = CommittedTables(DB)]_vars

\* a second call of Full(1) has returned, with the rows of the first still there
C1_Witness ==
    /\ Me.pc = "main" /\ Me.again = "returned" /\ Me.tweet = Full(1)
    /\ \E r \in tweets : r.id_tweets = 1 /\ r.tx = 0
    /\ tweet_media # {} /\ tweet_urls # {}

\* the committed rows hold everything record t asks for
UrlId(db, u) == {r.id_urls : r \in UrlRows(Committed(db.urls), u)}

RowSetComplete(t, db) ==
    LET es == Entities(t, "urls").v
        ms == Entities(t, "user_mentions").v
        ts == TagList(t).v
        md == MediaList(t)
        has(T, row) == \E r \in Committed(T) : \A f \in DOMAIN row : r[f] = row[f]
    IN /\ has(db.tweets, [id_tweets |-> t.id, id_users |-> t.user.id])
       /\ has(db.users, [id_users |-> t.user.id])
       /\ ~IsNone(t.user.url) => UrlId(db, Val(t.user.url)) # {}
       /\ ~IsNone(ReplyTo(t)) => has(db.users, [id_users |-> Val(ReplyTo(t))])
       /\ \A k \in 1..Len(es) :
            \E id \in UrlId(db, es[k].expanded_url) :
                has(db.tweet_urls, [id_tweets |-> t.id, id_urls |-> id])
       /\ \A k \in 1..Len(ms) :
            /\ has(db.users, [id_users |-> ms[k].id])
            /\ has(db.tweet_mentions, [id_tweets |-> t.id, id_users |-> ms[k].id])
       /\ \A k \in 1..Len(ts) :
            has(db.tweet_tags, [id_tweets |-> t.id, tag |-> remove_nulls(ts[k])])
       /\ \A k \in 1..Len(md) :
            \E id \in UrlId(db, md[k].media_url) :
                has(db.tweet_media, [id_tweets |-> t.id, id_urls |-> id,
                                     type |-> md[k].type])

\* C2: a call of insert_tweet that fails after the skip check leaves the committed
\* rows of all seven tables as they were before it, the urls rows and placeholder
\* users rows it had written included: no step of a call changes a committed table
\* except the one that ends the transaction block normally, that step commits the
\* whole row set of the record, and outside a call no uncommitted row is left.
C2_FailedCallLeavesNothing ==
    [][/\ (InCall(Me) /\ Me'.pc # "main") => CommittedTables(DB)' = CommittedTables(DB)
       /\ (InCall(Me) /\ Me'.pc = "main" /\ CommittedTables(DB)' # CommittedTables(DB))
            => Me.pc = "media" /\ RowSetComplete(Me.tweet, DB')
       /\ ~InCall(Me') => NoUncommitted']_vars

\* the malformed record has failed at its entities, after its profile url was
\* interned and its users and tweets rows were written: none of them is left
C2_Witness ==
    /\ Me.pc = "halted" /\ Me.exc = [type |-> "KeyError", line |-> 253]
    /\ hist.first["u1"] # 0
    /\ urls = {} /\ users = {} /\ tweets = {}

\* every url string has at most one row, and every id at most one string
UrlsOneToOne(T) ==
    \A r1, r2 \in T : (r1.url = r2.url) <=> (r1.id_urls = r2.id_urls)

\* the rows of urls, whoever wrote them
UrlData(T) == {[id_urls |-> r.id_urls, url |-> r.url] : r \in T}

\* the step is a return of get_id_urls, and what it returns
GiuReturns == Me.pc \in {"giu_insert", "giu_select"} /\ Me'.pc = Me.ret
Returned == IF Me.ret = "insert_user" THEN Val(Me'.user_id_urls) ELSE Me'.id_urls

\* C3 as claimed: at most one urls row per string, distinct ids for distinct
\* strings, and get_id_urls returns the same id for the same string on every call.
C3_SameIdOnEveryCall ==
    /\ UrlsOneToOne(urls)
    /\ ~hist.changed
    /\ \A u1, u2 \in UrlStrings :
          (u1 # u2 /\ hist.first[u1] # 0) => hist.first[u1] # hist.first[u2]

\* C3 amended: urls holds at most one row per string and one string per id;
\* get_id_urls returns the id of the one row of its string, a row it inserts only
\* when the string had none; and a committed row is never removed or changed.  So
\* calls with the same string return the same id for as long as the row is there,
\* and only a row that was rolled back with the call that interned it is replaced
\* by a row with a new id.
C3_SameIdWhileRowStays ==
    [][/\ UrlsOneToOne(urls')
       /\ \A r \in Committed(urls) : r \in urls'
       /\ GiuReturns =>
            /\ \E r \in urls' : r.url = Me.url /\ r.id_urls = Returned
            /\ \A r \in urls : r.url = Me.url => r.id_urls = Returned
            /\ UrlData(urls') # UrlData(urls) => UrlRows(urls, Me.url) = {}
       /\ ~GiuReturns => UrlData(urls') \subseteq UrlData(urls)]_vars

\* get_id_urls has returned for both strings, u1 more than once, always the same
C3_Witness ==
    /\ Me.pc = "main" /\ Me.tweet = Full(2) /\ hist.first["u1"] = 1
    /\ hist.first["u2"] = 3 /\ ~hist.changed
    /\ urls = {[id_urls |-> 1, url |-> "u1", tx |-> 0], [id_urls |-> 3, url |-> "u2", tx |-> 0]}

UserIdsOf(T) == {r.id_users : r \in T}

\* C4: every tweets row's author and non-null reply target, and every
\* tweet_mentions row's user, has a users row; insert_tweet reaches the insert of
\* the tweets row only with the author's and the reply target's users row written
\* (the placeholder, when there was none), and the insert of a tweet_mentions row
\* only with the mentioned user's, so no insert ever fails on a foreign key.
C4_ReferencedUsersExist ==
    /\ \A r \in tweets :
          /\ r.id_users \in UserIdsOf(users)
          /\ ~IsNone(r.in_reply_to_user_id)
                => Val(r.in_reply_to_user_id) \in UserIdsOf(users)
    /\ \A r \in tweet_mentions : r.id_users \in UserIdsOf(users)
    /\ Me.pc = "insert_tweet" =>
          /\ Me.tweet.user.id \in UserIdsOf(users)
          /\ ~IsNone(ReplyTo(Me.tweet)) => Val(ReplyTo(Me.tweet)) \in UserIdsOf(users)
    /\ Me.pc = "insert_mention" =>
          Entities(Me.tweet, "user_mentions").v[Me.k].id \in UserIdsOf(users)
    /\ Me.exc.type # "ForeignKeyViolation"

\* a committed reply to a user known only as the placeholder written for it
C4_Witness ==
    /\ \E r \in tweets : r.tx = 0 /\ r.in_reply_to_user_id = Some(Stranger)
    /\ Unhydrated(Stranger, 0) \in users

RECURSIVE JoinPoints(_, _)
JoinPoints(ring, j) ==
    IF j = Len(ring) THEN PointText(ring[j])
    ELSE PointText(ring[j]) \o <<",">> \o JoinPoints(ring, j + 1)

RECURSIVE JoinRings(_, _)
JoinRings(rings, i) ==
    LET one == <<"(">> \o JoinPoints(Append(rings[i], rings[i][1]), 1) \o <<")">>
    IN IF i = Len(rings) THEN one ELSE one \o <<",">> \o JoinRings(rings, i + 1)

\* point if geo.coordinates is there, else polygon if the place has a bounding box,
\* else null
ExpectedGeo(t) ==
    IF ~IsNone(t.geo)
    THEN Some(<<"POINT", "(">> \o PointText(Val(t.geo).coordinates) \o <<")">>)
    ELSE IF ~IsNone(t.place) /\ HasKey(Val(t.place), "bounding_box")
    THEN Some(<<"MULTIPOLYGON", "(", "(">>
              \o JoinRings(Val(t.place).bounding_box.coordinates, 1) \o <<")", ")">>)
    ELSE None

\* the tweets row the call in progress has written has the geometry the precedence
\* point -> polygon -> null gives its record
GeometryAsDerived ==
    \A r \in tweets :
        (r.tx = 1 /\ r.id_tweets = Me.tweet.id) => r.geo = ExpectedGeo(Me.tweet)

\* C8: the geometry is derived by the precedence point -> polygon -> null, and a
\* record with no geometry source raises nothing: its tweets row is inserted with
\* null geometry, whatever user.geo_enabled is.
C8_AbsentGeometryIsNull ==
    /\ GeometryAsDerived
    /\ ~(Me.exc.type = "TypeError" /\ Me.exc.line = 151)
    /\ Me.exc.type # "UnboundLocalError"

\* C9: remove_nulls returns a text with no null character, applying it twice is
\* applying it once, and every free-text value the loader hands to the store has
\* been through it: no stored text holds a null character and the store never has
\* to refuse one.
C9_AllFreeTextSanitized ==
    /\ \A s \in TextsUpTo(MaxLen) :
          /\ ~OptHasNul(remove_nulls(Some(s)))
          /\ remove_nulls(remove_nulls(Some(s))) = remove_nulls(Some(s))
    /\ remove_nulls(None) = None
    /\ \A r \in users : ~Rejected({r.screen_name, r.name, r.location, r.description})
    /\ \A r \in tweets : ~Rejected({r.text, r.source, r.place_name})
    /\ \A r \in tweet_tags : ~Rejected({r.tag})
    /\ Me.exc.type # "ValueError"

\* C5: with two loaders on one store, no statement of insert_tweet or get_id_urls
\* fails on a uniqueness violation, and the lookup get_id_urls falls back to after
\* a conflicting insert always finds the row.
C5_NoConflictSurfaces ==
    \A l \in Loaders :
        /\ ctx[l].exc.type # "UniqueViolation"
        /\ ~(ctx[l].exc.type = "TypeError" /\ ctx[l].exc.line = 72)

\* rows of the tables that hang off a tweet, written by loader l's open transaction
Associated(l) ==
    {r \in tweet_urls \cup tweet_mentions \cup tweet_tags \cup tweet_media : r.tx = l}

\* C6: a call whose insert into tweets inserted nothing, because the id was already
\* there, writes no tweet_urls, tweet_mentions, tweet_tags or tweet_media row.
C6_NoRowsAfterNoOpInsert ==
    \A l \in Loaders : ctx[l].noop => Associated(l) = {}

\* the url string the committed urls row with the given id holds
UrlName(db, id) ==
    LET rows == {r \in Committed(db.urls) : r.id_urls = id}
    IN IF rows = {} THEN "" ELSE (CHOOSE r \in rows : TRUE).url

\* the committed tables with the url string in the place of every url id
ByUrl(db) ==
    [t \in TableNames |->
        IF t = "urls" THEN {r.url : r \in Committed(db.urls)}
        ELSE IF t = "users"
        THEN {[r EXCEPT !.id_urls = IF IsNone(@) THEN None
                                    ELSE Some(UrlName(db, Val(@)))] :
                 r \in Committed(db.users)}
        ELSE IF t \in {"tweet_urls", "tweet_media"}
        THEN {[r EXCEPT !.id_urls = UrlName(db, @)] : r \in Committed(db[t])}
        ELSE Committed(db[t])]

\* the lines before the one the loader is at
Before(c) == SubSeq(Lines(inputs), 1, c.i - 1)

\* every line's record has exactly one row in tweets
StoredOnce ==
    \A n \in 1..Len(Lines(inputs)) :
        Cardinality({r \in Committed(tweets) : r.id_tweets = Lines(inputs)[n].id}) = 1

\* the first run halts on the record of line i with the store of an uninterrupted
\* run over the lines before it, and nothing of line i
HaltsClean ==
    (Me.pc = "halted" /\ ~hist.rerun)
        => /\ NoUncommitted
           /\ CommittedTables(DB) = CommittedTables(Uninterrupted(Before(Me)).db)

\* C10 as claimed: a run that halts on a record leaves the records before it
\* committed and nothing of the record, and when the loader, invoked again on the
\* same input, runs to the end, the tables are those of one uninterrupted run over
\* the input, every record stored exactly once.
C10_RerunEqualsOneRun ==
    /\ HaltsClean
    /\ Me.pc = "finished"
         => /\ StoredOnce
            /\ CommittedTables(DB) = CommittedTables(Uninterrupted(Lines(inputs)).db)

\* C10, amended: the same, except that the tables after the re-invoked run are those
\* of one uninterrupted run up to the values of the url ids: the rows are the same
\* once every id_urls is replaced by the url string it stands for, and the ids
\* themselves can differ, because an id drawn by a call that was rolled back is not
\* handed out again.
C10_RerunEqualsOneRunUpToUrlIds ==
    /\ HaltsClean
    /\ Me.pc = "finished"
         => /\ StoredOnce
            /\ NoUncommitted
            /\ UrlsOneToOne(urls)
            /\ ByUrl(DB) = ByUrl(Uninterrupted(Lines(inputs)).db)

\* a re-invoked run has finished over two lines, both stored, with url ids that are
\* not those of an uninterrupted run
C10_Witness ==
    /\ Me.pc = "finished" /\ hist.rerun
    /\ Len(Lines(inputs)) = 2
    /\ Cardinality(tweets) = 2
    /\ CommittedTables(DB) # CommittedTables(Uninterrupted(Lines(inputs)).db)

==========================================================================
